---------------------------- MODULE Spec2Model ----------------------------
(***************************************************************************)
(* Ring signatures of the nazgul crate (SAG, BLSAG, MLSAG, CLSAG) over the *)
(* Ristretto group, in the symbolic (random-oracle / generic-group) model: *)
(*                                                                         *)
(*   - a digest is identified with the byte stream that was fed to the     *)
(*     hasher, so two digests are equal exactly when the streams are (the  *)
(*     hash is collision free);                                            *)
(*   - a Scalar is a polynomial with integer coefficients in the scalars   *)
(*     obtained by Scalar::from_hash (small integers stand for themselves, *)
(*     a negative integer -x for l - x);                                   *)
(*   - a RistrettoPoint is a linear combination, with Scalar coefficients, *)
(*     of the base point and of the points RistrettoPoint::from_hash       *)
(*     returns; the empty combination is the identity.                     *)
(*                                                                         *)
(* Both are kept in normal form (no zero coefficient), so equality of the  *)
(* values is equality in the group.                                        *)
(***************************************************************************)
EXTENDS Integers, Sequences, FiniteSets, Bags, TLC

\* ------------------------------------------------------------------ bounds

\* the caller passes at most MaxDecoys decoys (rows): rings of size 1..MaxDecoys+1
MaxDecoys == 2
\* private keys are drawn from 0..MaxKey
MaxKey == 1
\* the random generator is seeded from 0..MaxSeed
MaxSeed == 2
\* CLSAG and MLSAG rows have at most MaxCols columns
MaxCols == 2

\* ------------------------------------------------------------ scalar field

\* The monomial 1 (no hash-derived factor).
One == EmptyBag

\* Scalar::from(n) for a small integer n; Scalar::ZERO is ConstS(0).
ConstS(n) == IF n = 0 THEN <<>> ELSE [m \in {One} |-> n]

ZERO == ConstS(0)

Coef(p, m) == IF m \in DOMAIN p THEN p[m] ELSE 0

\* Scalar + Scalar
AddS(p, q) ==
    LET D  == (DOMAIN p) \cup (DOMAIN q)
        nz == {m \in D : Coef(p, m) + Coef(q, m) # 0}
    IN  [m \in nz |-> Coef(p, m) + Coef(q, m)]

\* -Scalar
NegS(p) == [m \in DOMAIN p |-> 0 - p[m]]

\* Scalar - Scalar
SubS(p, q) == AddS(p, NegS(q))

\* the sum of p[m1] * q[m2] over the pairs <<m1, m2>> of the set pairs
RECURSIVE SumProducts(_, _, _)
SumProducts(pairs, p, q) ==
    IF pairs = {} THEN 0
    ELSE LET pr == CHOOSE x \in pairs : TRUE
         IN  p[pr[1]] * q[pr[2]] + SumProducts(pairs \ {pr}, p, q)

\* Scalar * Scalar
MulS(p, q) ==
    LET pairs == (DOMAIN p) \X (DOMAIN q)
        mons  == {pr[1] (+) pr[2] : pr \in pairs}
        coef(m) == SumProducts({pr \in pairs : pr[1] (+) pr[2] = m}, p, q)
        nz == {m \in mons : coef(m) # 0}
    IN  [m \in nz |-> coef(m)]

\* ------------------------------------------------------------- byte chunks

\* What a hasher is fed: raw bytes, a text label or a 32-byte point encoding.
\* Every chunk has the same fields so that chunks are always comparable.
BytesChunk(b) == [kind |-> "bytes", lbl |-> "", bytes |-> b, pt |-> <<>>]

LabelChunk(s) == [kind |-> "label", lbl |-> s, bytes |-> <<>>, pt |-> <<>>]

\* RistrettoPoint::compress().as_bytes(): the canonical encoding, one per point
compress(P) == [kind |-> "point", lbl |-> "", bytes |-> <<>>, pt |-> P]

\* one hash function under every name
HashNew_one_algorithm(alg) == <<LabelChunk("Hash")>>

\* Hash::new() / Hash::default() of the hash algorithm alg
HashNew(alg) == <<LabelChunk(alg)>>

\* Digest::update; feeding no bytes leaves the state as it is
update(h, chunk) ==
    IF chunk.kind = "bytes" /\ chunk.bytes = <<>> THEN h ELSE Append(h, chunk)

RECURSIVE updateAll(_, _)
updateAll(h, chunks) ==
    IF chunks = <<>> THEN h
    ELSE updateAll(update(h, Head(chunks)), Tail(chunks))

\* Scalar::from_hash
ScalarFromHash(h) == [m \in {SetToBag({h})} |-> 1]

\* ------------------------------------------------------------------- group

\* the key of the base point among the generators (no hasher state is empty)
GKey == <<>>

IDENTITY == <<>>

\* constants::RISTRETTO_BASEPOINT_POINT
RISTRETTO_BASEPOINT_POINT == [g \in {GKey} |-> ConstS(1)]

\* RistrettoPoint::from_hash
PointFromHash(h) == [g \in {h} |-> ConstS(1)]

CoefP(P, g) == IF g \in DOMAIN P THEN P[g] ELSE ZERO

\* RistrettoPoint + RistrettoPoint
AddP(P, Q) ==
    LET D  == (DOMAIN P) \cup (DOMAIN Q)
        nz == {g \in D : AddS(CoefP(P, g), CoefP(Q, g)) # ZERO}
    IN  [g \in nz |-> AddS(CoefP(P, g), CoefP(Q, g))]

\* Scalar * RistrettoPoint
MulP(s, P) ==
    IF s = ZERO THEN IDENTITY ELSE [g \in DOMAIN P |-> MulS(s, P[g])]

\* RistrettoPoint::multiscalar_mul(&[s1, s2], &[P1, P2])
multiscalar_mul(s1, s2, P1, P2) == AddP(MulP(s1, P1), MulP(s2, P2))

\* ------------------------------------------------------- vectors and RNG

\* Rust indexes from 0: v[i], v[i] = x, Vec::insert(i, x) (panics when i > len)
At(v, i) == v[i + 1]

Set(v, i, x) == [v EXCEPT ![i + 1] = x]

\* a push at the end, whatever the index
insert_at_end(v, i, x) == Append(v, x)

insert(v, i, x) ==
    [j \in 1..(Len(v) + 1) |->
        IF j <= i THEN v[j] ELSE IF j = i + 1 THEN x ELSE v[j - 1]]

\* the values the generator seeded with seed returns: the draw number ctr
RandomValue(seed, ctr) == (seed + ctr) % (MaxSeed + 2)

\* Scalar::random(&mut csprng), for the ctr-th draw of the call: uniform over
\* the field, so never zero but with negligible probability
random(seed, ctr) == ConstS(RandomValue(seed, ctr) + 1)

\* ----------------------------------------------------------------- inputs

HashAlgs == {"Sha512", "Keccak512"}

Messages == {<<>>, <<7>>}

Keys == {ConstS(x) : x \in 0..MaxKey}

\* a point nobody knows the discrete logarithm of (RistrettoPoint::random)
RandomPoint == PointFromHash(<<LabelChunk("RistrettoPoint::random")>>)

DecoyPoints == {IDENTITY, RandomPoint}

Rings == UNION {[1..m -> DecoyPoints] : m \in 0..MaxDecoys}

\* ------------------------------------------------------------------- SAG

\* sag.rs, SAG::sign up to the loop: the locals of the call
SAG_sign_enter(Hash, k, ring0, secret_index, message, seed) ==
    LET k_point == MulP(k, RISTRETTO_BASEPOINT_POINT)
        n       == Len(ring0) + 1
        ring    == insert(ring0, secret_index, k_point)
        a       == random(seed, 0)
        rs      == [x \in 1..n |-> random(seed, x)]
        cs      == [x \in 1..n |-> ZERO]
        group_and_message_hash ==
            update(updateAll(HashNew(Hash), [x \in 1..n |-> compress(ring[x])]),
                   BytesChunk(message))
        hashes  == [x \in 1..n |-> group_and_message_hash]
        first   == (secret_index + 1) % n
        hashes1 == Set(hashes, first,
                       update(At(hashes, first),
                              compress(MulP(a, RISTRETTO_BASEPOINT_POINT))))
    IN  [n |-> n, ring |-> ring, a |-> a, rs |-> rs,
         cs |-> Set(cs, first, ScalarFromHash(At(hashes1, first))),
         hashes |-> hashes1, i |-> first, secret_index |-> secret_index]

\* a loop that runs a single iteration
LoopBreaksAtOnce(secret_index, i, n) == TRUE

\* a loop that stops after the step that reads the signer's index
LoopBreaksAtSecretIndex(secret_index, i, n) == i % n = secret_index

\* a loop that always runs to the last index, wherever the signer stands
LoopBreaksAtLastIndex(secret_index, i, n) == i % n = n - 1

\* the break condition closing every scheme's loop
LoopBreaks(secret_index, i, n) ==
    \/ secret_index >= 1 /\ i % n = (secret_index - 1) % n
    \/ secret_index = 0 /\ i % n = n - 1

\* one iteration of the loop of SAG::sign, before the break test
SAG_sign_body(l) ==
    LET n  == l.n
        i  == l.i
        nx == (i + 1) % n
        hashes == Set(l.hashes, nx,
                      update(At(l.hashes, nx),
                             compress(multiscalar_mul(
                                 At(l.rs, i % n), At(l.cs, i % n),
                                 RISTRETTO_BASEPOINT_POINT, At(l.ring, i % n)))))
    IN  [l EXCEPT !.hashes = hashes,
                  !.cs = Set(l.cs, nx, ScalarFromHash(At(hashes, nx)))]

\* a gap closure written into the slot after the signer's
SAG_sign_exit_next_slot(l, k, secret_index) ==
    LET rs == Set(l.rs, (secret_index + 1) % l.n,
                  SubS(l.a, MulS(At(l.cs, secret_index), k)))
    IN  [challenge |-> At(l.cs, 0), responses |-> rs, ring |-> l.ring]

\* SAG::sign after the loop: the gap closure and the returned struct
SAG_sign_exit(l, k, secret_index) ==
    LET rs == Set(l.rs, secret_index,
                  SubS(l.a, MulS(At(l.cs, secret_index), k)))
    IN  [challenge |-> At(l.cs, 0), responses |-> rs, ring |-> l.ring]

\* the for loop of SAG::verify from step j on; responses[j] panics past the end
RECURSIVE SAG_verify_loop(_, _, _, _)
SAG_verify_loop(signature, group_and_message_hash, j, reconstructed_c) ==
    IF j = Len(signature.ring) THEN [abort |-> FALSE, c |-> reconstructed_c]
    ELSE IF j >= Len(signature.responses)
         THEN [abort |-> TRUE, c |-> reconstructed_c]
    ELSE LET h == update(group_and_message_hash,
                         compress(multiscalar_mul(
                             At(signature.responses, j), reconstructed_c,
                             RISTRETTO_BASEPOINT_POINT, At(signature.ring, j))))
         IN  SAG_verify_loop(signature, group_and_message_hash, j + 1,
                             ScalarFromHash(h))

\* a verify that leaves the message out of the hash
SAG_verify_without_message(Hash, signature, message) ==
    LET n == Len(signature.ring)
        group_hash ==
            updateAll(HashNew(Hash), [x \in 1..n |-> compress(signature.ring[x])])
        end == SAG_verify_loop(signature, group_hash, 0, signature.challenge)
    IN  IF end.abort THEN "abort"
        ELSE IF signature.challenge = end.c THEN "true" ELSE "false"

\* SAG::verify: "true", "false", or "abort" when the call panics
SAG_verify(Hash, signature, message) ==
    LET n == Len(signature.ring)
        group_and_message_hash ==
            update(updateAll(HashNew(Hash),
                             [x \in 1..n |-> compress(signature.ring[x])]),
                   BytesChunk(message))
        end == SAG_verify_loop(signature, group_and_message_hash, 0,
                               signature.challenge)
    IN  IF end.abort THEN "abort"
        ELSE IF signature.challenge = end.c THEN "true" ELSE "false"

\* ------------------------------------------------------------------ BLSAG

\* RistrettoPoint::from_hash(Hash::default().chain_update(P.compress().as_bytes()))
HashToPoint(Hash, P) == PointFromHash(update(HashNew(Hash), compress(P)))

\* BLSAG::generate_key_image
BLSAG_generate_key_image(Hash, k) ==
    LET k_point == MulP(k, RISTRETTO_BASEPOINT_POINT)
    IN  MulP(k, HashToPoint(Hash, k_point))

\* blsag.rs, BLSAG::sign up to the loop
BLSAG_sign_enter(Hash, k, ring0, secret_index, message, seed) ==
    LET k_point   == MulP(k, RISTRETTO_BASEPOINT_POINT)
        key_image == BLSAG_generate_key_image(Hash, k)
        n       == Len(ring0) + 1
        ring    == insert(ring0, secret_index, k_point)
        a       == random(seed, 0)
        rs      == [x \in 1..n |-> random(seed, x)]
        cs      == [x \in 1..n |-> ZERO]
        message_hash == update(HashNew(Hash), BytesChunk(message))
        hashes  == [x \in 1..n |-> message_hash]
        first   == (secret_index + 1) % n
        hashes1 == Set(hashes, first,
                       update(update(At(hashes, first),
                                     compress(MulP(a, RISTRETTO_BASEPOINT_POINT))),
                              compress(MulP(a, HashToPoint(Hash, k_point)))))
    IN  [n |-> n, ring |-> ring, a |-> a, rs |-> rs,
         cs |-> Set(cs, first, ScalarFromHash(At(hashes1, first))),
         hashes |-> hashes1, i |-> first, secret_index |-> secret_index,
         key_image |-> key_image]

\* an iteration that leaves the key-image term out of the hash
BLSAG_sign_body_without_image(Hash, l) ==
    LET n  == l.n
        i  == l.i
        nx == (i + 1) % n
        h1 == update(At(l.hashes, nx),
                     compress(multiscalar_mul(
                         At(l.rs, i % n), At(l.cs, i % n),
                         RISTRETTO_BASEPOINT_POINT, At(l.ring, i % n))))
    IN  [l EXCEPT !.hashes = Set(l.hashes, nx, h1),
                  !.cs = Set(l.cs, nx, ScalarFromHash(h1))]

\* one iteration of the loop of BLSAG::sign, before the break test
BLSAG_sign_body(Hash, l) ==
    LET n  == l.n
        i  == l.i
        nx == (i + 1) % n
        h1 == update(At(l.hashes, nx),
                     compress(multiscalar_mul(
                         At(l.rs, i % n), At(l.cs, i % n),
                         RISTRETTO_BASEPOINT_POINT, At(l.ring, i % n))))
        h2 == update(h1,
                     compress(multiscalar_mul(
                         At(l.rs, i % n), At(l.cs, i % n),
                         HashToPoint(Hash, At(l.ring, i % n)), l.key_image)))
    IN  [l EXCEPT !.hashes = Set(l.hashes, nx, h2),
                  !.cs = Set(l.cs, nx, ScalarFromHash(h2))]

\* a gap closure with the sign of c * k flipped
BLSAG_sign_exit_plus(l, k, secret_index) ==
    LET rs == Set(l.rs, secret_index,
                  AddS(l.a, MulS(At(l.cs, secret_index), k)))
    IN  [challenge |-> At(l.cs, 0), responses |-> rs, ring |-> l.ring,
         key_image |-> l.key_image]

\* a sign that stores the nonce's image a * Hp(K) as the key image
BLSAG_sign_exit_nonce_image(l, k, secret_index) ==
    LET rs == Set(l.rs, secret_index,
                  SubS(l.a, MulS(At(l.cs, secret_index), k)))
    IN  [challenge |-> At(l.cs, 0), responses |-> rs, ring |-> l.ring,
         key_image |-> MulP(l.a, HashToPoint("Sha512", At(l.ring, secret_index)))]

\* BLSAG::sign after the loop
BLSAG_sign_exit(l, k, secret_index) ==
    LET rs == Set(l.rs, secret_index,
                  SubS(l.a, MulS(At(l.cs, secret_index), k)))
    IN  [challenge |-> At(l.cs, 0), responses |-> rs, ring |-> l.ring,
         key_image |-> l.key_image]

\* the for loop of BLSAG::verify from step j on
RECURSIVE BLSAG_verify_loop(_, _, _, _, _)
BLSAG_verify_loop(Hash, signature, message, j, reconstructed_c) ==
    IF j = Len(signature.ring) THEN [abort |-> FALSE, c |-> reconstructed_c]
    ELSE IF j >= Len(signature.responses)
         THEN [abort |-> TRUE, c |-> reconstructed_c]
    ELSE LET h0 == update(HashNew(Hash), BytesChunk(message))
             h1 == update(h0,
                          compress(multiscalar_mul(
                              At(signature.responses, j), reconstructed_c,
                              RISTRETTO_BASEPOINT_POINT, At(signature.ring, j))))
             h2 == update(h1,
                          compress(multiscalar_mul(
                              At(signature.responses, j), reconstructed_c,
                              HashToPoint(Hash, At(signature.ring, j)),
                              signature.key_image)))
         IN  BLSAG_verify_loop(Hash, signature, message, j + 1,
                               ScalarFromHash(h2))

\* BLSAG::verify
BLSAG_verify(Hash, signature, message) ==
    LET end == BLSAG_verify_loop(Hash, signature, message, 0,
                                 signature.challenge)
    IN  IF end.abort THEN "abort"
        ELSE IF signature.challenge = end.c THEN "true" ELSE "false"

\* a link that also wants the two rings equal
BLSAG_link_same_ring(signature_1, signature_2) ==
    /\ signature_1.key_image = signature_2.key_image
    /\ signature_1.ring = signature_2.ring

\* BLSAG::link
BLSAG_link(signature_1, signature_2) ==
    signature_1.key_image = signature_2.key_image

\* ------------------------------------------------------------------ CLSAG

Min(x, y) == IF x <= y THEN x ELSE y

\* what `for row in ring.iter().take(nr) { for key in row.iter().take(nc) {
\* h.update(key.compress().as_bytes()) } }` feeds, from row number x on
RECURSIVE RingChunks(_, _, _, _)
RingChunks(ring, nr, nc, x) ==
    IF x > Min(Len(ring), nr) THEN <<>>
    ELSE [y \in 1..Min(Len(ring[x]), nc) |-> compress(ring[x][y])]
             \o RingChunks(ring, nr, nc, x + 1)

\* key_images.iter().take(nc), compressed
ImageChunks(key_images, nc) ==
    [y \in 1..Min(Len(key_images), nc) |-> compress(key_images[y])]

\* prefixed_hashes_with_key_images: per column the label "CSLAG_<index>", the
\* ring, the key images
PrefixedHashesWithKeyImages(Hash, ring, nr, nc, key_images) ==
    [x \in 1..nc |->
        updateAll(updateAll(update(HashNew(Hash),
                                   LabelChunk("CSLAG_" \o ToString(x - 1))),
                            RingChunks(ring, nr, nc, 1)),
                  ImageChunks(key_images, nc))]

\* an aggregate that stops after the term of its first column
AggregateScalar_first_only(prefixed, nc, ks, j) ==
    IF j >= nc THEN ZERO ELSE MulS(ScalarFromHash(At(prefixed, j)), At(ks, j))

\* (j..nc).map(|j| Scalar::from_hash(prefixed[j].clone()) * ks[j]).sum()
RECURSIVE AggregateScalar(_, _, _, _)
AggregateScalar(prefixed, nc, ks, j) ==
    IF j >= nc THEN ZERO
    ELSE AddS(MulS(ScalarFromHash(At(prefixed, j)), At(ks, j)),
              AggregateScalar(prefixed, nc, ks, j + 1))

\* (j..nc).map(|j| Scalar::from_hash(prefixed[j].clone()) * points[j]).sum()
RECURSIVE AggregatePoint(_, _, _, _)
AggregatePoint(prefixed, nc, points, j) ==
    IF j >= nc THEN IDENTITY
    ELSE AddP(MulP(ScalarFromHash(At(prefixed, j)), At(points, j)),
              AggregatePoint(prefixed, nc, points, j + 1))

\* key images over each column's own hashed key, as MLSAG computes them
CLSAG_generate_key_image_per_column(Hash, ks) ==
    LET k_points == [x \in 1..Len(ks) |-> MulP(ks[x], RISTRETTO_BASEPOINT_POINT)]
    IN  [x \in 1..Len(ks) |-> MulP(ks[x], HashToPoint(Hash, k_points[x]))]

\* CLSAG::generate_key_image (k_points[0] panics on an empty ks)
CLSAG_generate_key_image(Hash, ks) ==
    LET k_points == [x \in 1..Len(ks) |-> MulP(ks[x], RISTRETTO_BASEPOINT_POINT)]
        base_key_hashed_to_point == HashToPoint(Hash, At(k_points, 0))
    IN  [x \in 1..Len(ks) |-> MulP(ks[x], base_key_hashed_to_point)]

\* a sign that also refuses the index len(decoys), the end of the list
CLSAG_sign_panics_at_end(ks, ring0, secret_index) ==
    \/ Len(ring0) = 0
    \/ Len(ks) = 0
    \/ secret_index >= Len(ring0)
    \/ Len(ks) < Len(ring0[1])
    \/ \E x \in 1..Len(ring0) : Len(ring0[x]) < Len(ring0[1])

\* the indexing of CLSAG::sign that panics: ring[0], k_points[0], Vec::insert,
\* ks[j] and ring[i][j] for j < nc
CLSAG_sign_panics(ks, ring0, secret_index) ==
    \/ Len(ring0) = 0
    \/ Len(ks) = 0
    \/ secret_index > Len(ring0)
    \/ Len(ks) < Len(ring0[1])
    \/ \E x \in 1..Len(ring0) : Len(ring0[x]) < Len(ring0[1])

\* the seed of the challenge chain: "CSLAG_c", the ring, the message
CLSAG_chain_hash(Hash, ring, nr, nc, message) ==
    update(updateAll(update(HashNew(Hash), LabelChunk("CSLAG_c")),
                     RingChunks(ring, nr, nc, 1)),
           BytesChunk(message))

\* clsag.rs, CLSAG::sign up to the loop
CLSAG_sign_enter(Hash, ks, ring0, secret_index, message, seed) ==
    LET nr == Len(ring0) + 1
        nc == Len(ring0[1])
        k_points == [x \in 1..Len(ks) |-> MulP(ks[x], RISTRETTO_BASEPOINT_POINT)]
        base_key_hashed_to_point == HashToPoint(Hash, At(k_points, 0))
        key_images == CLSAG_generate_key_image(Hash, ks)
        ring == insert(ring0, secret_index, k_points)
        a    == random(seed, 0)
        rs   == [x \in 1..nr |-> random(seed, x)]
        cs   == [x \in 1..nr |-> ZERO]
        prefixed_hashes_with_key_images ==
            PrefixedHashesWithKeyImages(Hash, ring, nr, nc, key_images)
        aggregate_private_key ==
            AggregateScalar(prefixed_hashes_with_key_images, nc, ks, 0)
        aggregate_public_keys ==
            [x \in 1..nr |->
                AggregatePoint(prefixed_hashes_with_key_images, nc, ring[x], 0)]
        aggregate_key_image ==
            AggregatePoint(prefixed_hashes_with_key_images, nc, key_images, 0)
        hashes == [x \in 1..nr |-> CLSAG_chain_hash(Hash, ring, nr, nc, message)]
        first  == (secret_index + 1) % nr
        hashes1 == Set(hashes, first,
                       update(update(At(hashes, first),
                                     compress(MulP(a, RISTRETTO_BASEPOINT_POINT))),
                              compress(MulP(a, base_key_hashed_to_point))))
    IN  [n |-> nr, nc |-> nc, ring |-> ring, a |-> a, rs |-> rs,
         cs |-> Set(cs, first, ScalarFromHash(At(hashes1, first))),
         hashes |-> hashes1, i |-> first, secret_index |-> secret_index,
         key_images |-> key_images,
         aggregate_private_key |-> aggregate_private_key,
         aggregate_public_keys |-> aggregate_public_keys,
         aggregate_key_image |-> aggregate_key_image]

\* one iteration of the loop of CLSAG::sign, before the break test
CLSAG_sign_body(Hash, l) ==
    LET nr == l.n
        i  == l.i
        nx == (i + 1) % nr
        h1 == update(At(l.hashes, nx),
                     compress(multiscalar_mul(
                         At(l.rs, i % nr), At(l.cs, i % nr),
                         RISTRETTO_BASEPOINT_POINT,
                         At(l.aggregate_public_keys, i % nr))))
        h2 == update(h1,
                     compress(multiscalar_mul(
                         At(l.rs, i % nr), At(l.cs, i % nr),
                         HashToPoint(Hash, At(At(l.ring, i % nr), 0)),
                         l.aggregate_key_image)))
    IN  [l EXCEPT !.hashes = Set(l.hashes, nx, h2),
                  !.cs = Set(l.cs, nx, ScalarFromHash(h2))]

\* a sign that stores the aggregate key image in place of the list
CLSAG_sign_exit_aggregate_image(l, secret_index) ==
    LET rs == Set(l.rs, secret_index,
                  SubS(l.a, MulS(At(l.cs, secret_index), l.aggregate_private_key)))
    IN  [challenge |-> At(l.cs, 0), responses |-> rs, ring |-> l.ring,
         key_images |-> <<l.aggregate_key_image>>]

\* CLSAG::sign after the loop
CLSAG_sign_exit(l, secret_index) ==
    LET rs == Set(l.rs, secret_index,
                  SubS(l.a, MulS(At(l.cs, secret_index), l.aggregate_private_key)))
    IN  [challenge |-> At(l.cs, 0), responses |-> rs, ring |-> l.ring,
         key_images |-> l.key_images]

\* the indexing of CLSAG::verify that panics before its loop: ring[0],
\* ring[i][j] and key_images[j] for j < nc
CLSAG_verify_panics(signature) ==
    \/ Len(signature.ring) = 0
    \/ \E x \in 1..Len(signature.ring) :
           Len(signature.ring[x]) < Len(signature.ring[1])
    \/ Len(signature.key_images) < Len(signature.ring[1])

\* the for loop of CLSAG::verify from row i on; responses[i] and ring[i][0]
\* panic past the end
RECURSIVE CLSAG_verify_loop(_, _, _, _, _, _, _)
CLSAG_verify_loop(Hash, signature, h0, aggregate_public_keys, aggregate_key_image, i, reconstructed_c) ==
    IF i = Len(signature.ring) THEN [abort |-> FALSE, c |-> reconstructed_c]
    ELSE IF i >= Len(signature.responses) \/ Len(At(signature.ring, i)) = 0
         THEN [abort |-> TRUE, c |-> reconstructed_c]
    ELSE LET h1 == update(h0,
                          compress(multiscalar_mul(
                              At(signature.responses, i), reconstructed_c,
                              RISTRETTO_BASEPOINT_POINT,
                              At(aggregate_public_keys, i))))
             h2 == update(h1,
                          compress(multiscalar_mul(
                              At(signature.responses, i), reconstructed_c,
                              HashToPoint(Hash, At(At(signature.ring, i), 0)),
                              aggregate_key_image)))
         IN  CLSAG_verify_loop(Hash, signature, h0, aggregate_public_keys,
                               aggregate_key_image, i + 1, ScalarFromHash(h2))

\* CLSAG::verify
CLSAG_verify(Hash, signature, message) ==
    IF CLSAG_verify_panics(signature) THEN "abort"
    ELSE LET nr == Len(signature.ring)
             nc == Len(signature.ring[1])
             prefixed_hashes_with_key_images ==
                 PrefixedHashesWithKeyImages(Hash, signature.ring, nr, nc,
                                             signature.key_images)
             aggregate_public_keys ==
                 [x \in 1..nr |->
                     AggregatePoint(prefixed_hashes_with_key_images, nc,
                                    signature.ring[x], 0)]
             aggregate_key_image ==
                 AggregatePoint(prefixed_hashes_with_key_images, nc,
                                signature.key_images, 0)
             end == CLSAG_verify_loop(
                        Hash, signature,
                        CLSAG_chain_hash(Hash, signature.ring, nr, nc, message),
                        aggregate_public_keys, aggregate_key_image, 0,
                        signature.challenge)
         IN  IF end.abort THEN "abort"
             ELSE IF signature.challenge = end.c THEN "true" ELSE "false"

\* a link that compares the whole key-image lists
CLSAG_link_all_images(signature_1, signature_2) ==
    IF Len(signature_1.key_images) = 0 \/ Len(signature_2.key_images) = 0
    THEN "abort"
    ELSE IF signature_1.key_images = signature_2.key_images
         THEN "true" ELSE "false"

\* CLSAG::link (key_images[0] panics on an empty list)
CLSAG_link(signature_1, signature_2) ==
    IF Len(signature_1.key_images) = 0 \/ Len(signature_2.key_images) = 0
    THEN "abort"
    ELSE IF At(signature_1.key_images, 0) = At(signature_2.key_images, 0)
         THEN "true" ELSE "false"

\* ------------------------------------------------------------------ MLSAG

\* csprng.next_u32(), for the ctr-th draw of the call
next_u32(seed, ctr) == RandomValue(seed, ctr)

\* MLSAG::generate_key_image
MLSAG_generate_key_image(Hash, ks) ==
    LET nc == Len(ks)
        k_points == [x \in 1..nc |-> MulP(ks[x], RISTRETTO_BASEPOINT_POINT)]
    IN  [x \in 1..nc |-> MulP(ks[x], HashToPoint(Hash, k_points[x]))]

\* the indexing of MLSAG::sign that panics: ring[0], k_points[j] and
\* ring[i][j] for j < nc
MLSAG_sign_panics(ks, ring0) ==
    \/ Len(ring0) = 0
    \/ Len(ks) < Len(ring0[1])
    \/ \E x \in 1..Len(ring0) : Len(ring0[x]) < Len(ring0[1])

\* the two hash inputs of column j of the row (rs, c, keys): the loop body of
\* `for j in 0..nc` in sign and in verify
RECURSIVE MLSAG_row_inputs(_, _, _, _, _, _, _, _)
MLSAG_row_inputs(Hash, h, nc, rs, c, keys, key_images, j) ==
    IF j >= nc THEN h
    ELSE LET h1 == update(h, compress(
                       AddP(MulP(At(rs, j), RISTRETTO_BASEPOINT_POINT),
                            MulP(c, At(keys, j)))))
             h2 == update(h1, compress(
                       AddP(MulP(At(rs, j), HashToPoint(Hash, At(keys, j))),
                            MulP(c, At(key_images, j)))))
         IN  MLSAG_row_inputs(Hash, h2, nc, rs, c, keys, key_images, j + 1)

\* the two hash inputs of the nonce of column j, at the row after the signer's
RECURSIVE MLSAG_nonce_inputs(_, _, _, _, _, _)
MLSAG_nonce_inputs(Hash, h, nc, a, k_points, j) ==
    IF j >= nc THEN h
    ELSE LET h1 == update(h, compress(MulP(At(a, j), RISTRETTO_BASEPOINT_POINT)))
             h2 == update(h1, compress(MulP(At(a, j),
                                            HashToPoint(Hash, At(k_points, j)))))
         IN  MLSAG_nonce_inputs(Hash, h2, nc, a, k_points, j + 1)

\* mlsag.rs, MLSAG::sign up to the loop; the secret index comes from the RNG
MLSAG_sign_enter(Hash, ks, ring0, message, seed) ==
    LET nr == Len(ring0) + 1
        nc == Len(ring0[1])
        k_points == [x \in 1..Len(ks) |-> MulP(ks[x], RISTRETTO_BASEPOINT_POINT)]
        key_images == MLSAG_generate_key_image(Hash, ks)
        secret_index == next_u32(seed, 0) % nr
        ring == insert(ring0, secret_index, k_points)
        a    == [y \in 1..nc |-> random(seed, y)]
        rs   == [x \in 1..nr |->
                    [y \in 1..nc |-> random(seed, nc + (x - 1) * nc + y)]]
        cs   == [x \in 1..nr |-> ZERO]
        message_hash == update(HashNew(Hash), BytesChunk(message))
        hashes == [x \in 1..nr |-> message_hash]
        first  == (secret_index + 1) % nr
        hashes1 == Set(hashes, first,
                       MLSAG_nonce_inputs(Hash, At(hashes, first), nc, a,
                                          k_points, 0))
    IN  [n |-> nr, nc |-> nc, ring |-> ring, a |-> a, rs |-> rs,
         cs |-> Set(cs, first, ScalarFromHash(At(hashes1, first))),
         hashes |-> hashes1, i |-> first, key_images |-> key_images,
         secret_index |-> secret_index]

\* one iteration of the loop of MLSAG::sign, before the break test
MLSAG_sign_body(Hash, l) ==
    LET nr == l.n
        i  == l.i
        nx == (i + 1) % nr
        h  == MLSAG_row_inputs(Hash, At(l.hashes, nx), l.nc, At(l.rs, i % nr),
                               At(l.cs, i % nr), At(l.ring, i % nr),
                               l.key_images, 0)
    IN  [l EXCEPT !.hashes = Set(l.hashes, nx, h),
                  !.cs = Set(l.cs, nx, ScalarFromHash(h))]

\* a gap closure that takes the challenge of row 0 for the signer's row
MLSAG_sign_exit_first_challenge(l, ks) ==
    LET secret_index == l.secret_index
        row == [y \in 1..l.nc |-> SubS(l.a[y], MulS(At(l.cs, 0), ks[y]))]
    IN  [challenge |-> At(l.cs, 0),
         responses |-> Set(l.rs, secret_index, row),
         ring |-> l.ring, key_images |-> l.key_images]

\* a gap closure that leaves one response in the signer's row, as CLSAG has
MLSAG_sign_exit_single_response(l, ks) ==
    LET secret_index == l.secret_index
        row == <<SubS(l.a[1], MulS(At(l.cs, secret_index), ks[1]))>>
    IN  [challenge |-> At(l.cs, 0),
         responses |-> Set(l.rs, secret_index, row),
         ring |-> l.ring, key_images |-> l.key_images]

\* MLSAG::sign after the loop: a gap closure per column
MLSAG_sign_exit(l, ks) ==
    LET secret_index == l.secret_index
        row == [y \in 1..l.nc |->
                   SubS(l.a[y], MulS(At(l.cs, secret_index), ks[y]))]
    IN  [challenge |-> At(l.cs, 0),
         responses |-> Set(l.rs, secret_index, row),
         ring |-> l.ring, key_images |-> l.key_images]

\* the loop of MLSAG::verify from row i on; responses[i][j], ring[i][j] and
\* key_images[j] panic past the end
RECURSIVE MLSAG_verify_loop(_, _, _, _, _)
MLSAG_verify_loop(Hash, signature, message, i, reconstructed_c) ==
    LET nr == Len(signature.ring)
        nc == Len(signature.ring[1])
    IN  IF i = nr THEN [abort |-> FALSE, c |-> reconstructed_c]
        ELSE IF nc > 0 /\ (\/ i >= Len(signature.responses)
                           \/ Len(At(signature.responses, i)) < nc
                           \/ Len(At(signature.ring, i)) < nc
                           \/ Len(signature.key_images) < nc)
             THEN [abort |-> TRUE, c |-> reconstructed_c]
        ELSE LET h0 == update(HashNew(Hash), BytesChunk(message))
                 h  == MLSAG_row_inputs(Hash, h0, nc,
                                        IF nc > 0 THEN At(signature.responses, i)
                                        ELSE <<>>,
                                        reconstructed_c,
                                        IF nc > 0 THEN At(signature.ring, i)
                                        ELSE <<>>,
                                        signature.key_images, 0)
             IN  MLSAG_verify_loop(Hash, signature, message, i + 1,
                                   ScalarFromHash(h))

\* MLSAG::verify (ring[0] panics on an empty ring)
MLSAG_verify(Hash, signature, message) ==
    IF Len(signature.ring) = 0 THEN "abort"
    ELSE LET end == MLSAG_verify_loop(Hash, signature, message, 0,
                                      signature.challenge)
         IN  IF end.abort THEN "abort"
             ELSE IF signature.challenge = end.c THEN "true" ELSE "false"

\* the place of each 32-byte encoding of the set S in the order of byte
\* arrays: the encodings are distinct, so some total order of S
RECURSIVE ByteOrder(_)
ByteOrder(S) ==
    IF S = {} THEN <<>>
    ELSE LET last == CHOOSE p \in S : TRUE
             rest == ByteOrder(S \ {last})
         IN  [p \in S |-> IF p = last THEN Cardinality(S) ELSE rest[p]]

\* Vec::remove(i)
remove(v, i) == [j \in 1..(Len(v) - 1) |-> IF j <= i THEN v[j] ELSE v[j + 1]]

\* vec.sort_unstable(), by the order rank
RECURSIVE sort_unstable(_, _)
sort_unstable(v, rank) ==
    IF v = <<>> THEN <<>>
    ELSE LET m == CHOOSE x \in 1..Len(v) :
                      \A y \in 1..Len(v) : rank[v[x]] <= rank[v[y]]
         IN  <<v[m]>> \o sort_unstable(remove(v, m - 1), rank)

\* MLSAG::link: the two lists of encodings appended and sorted, then any two
\* neighbours equal
MLSAG_link(signature_1, signature_2) ==
    LET vec == [x \in 1..Len(signature_1.key_images) |->
                   compress(signature_1.key_images[x])]
               \o [x \in 1..Len(signature_2.key_images) |->
                      compress(signature_2.key_images[x])]
        sorted == sort_unstable(vec, ByteOrder({vec[x] : x \in 1..Len(vec)}))
    IN  \E x \in 1..(Len(sorted) - 1) : sorted[x] = sorted[x + 1]

\* ---------------------------------------------------------- serialization

\* the structs that derive Serialize and Deserialize: MLSAG does not
Serde == {"SAG", "BLSAG", "CLSAG"}

\* Scalar::to_bytes, what Scalar's Serialize writes: the canonical 32 bytes
to_bytes(s) == [kind |-> "scalar", lbl |-> "", bytes |-> <<>>, pt |-> s]

\* Scalar::from_canonical_bytes, what Scalar's Deserialize reads
from_canonical_bytes(b) == b.pt

\* CompressedRistretto::decompress, what RistrettoPoint's Deserialize reads
decompress(b) == b.pt

\* the derived Serialize: the fields in the order of the struct, by name
serialize(scheme, sig) ==
    LET scalars(v) == [x \in 1..Len(v) |-> to_bytes(v[x])]
        points(v)  == [x \in 1..Len(v) |-> compress(v[x])]
    IN  CASE scheme = "SAG" ->
               <<<<"challenge", to_bytes(sig.challenge)>>,
                 <<"responses", scalars(sig.responses)>>,
                 <<"ring", points(sig.ring)>>>>
          [] scheme = "BLSAG" ->
               <<<<"challenge", to_bytes(sig.challenge)>>,
                 <<"responses", scalars(sig.responses)>>,
                 <<"ring", points(sig.ring)>>,
                 <<"key_image", compress(sig.key_image)>>>>
          [] scheme = "CLSAG" ->
               <<<<"challenge", to_bytes(sig.challenge)>>,
                 <<"responses", scalars(sig.responses)>>,
                 <<"ring", [x \in 1..Len(sig.ring) |-> points(sig.ring[x])]>>,
                 <<"key_images", points(sig.key_images)>>>>

\* the derived Deserialize: each field looked up by its name and decoded
deserialize(scheme, ser) ==
    LET field(name) == (CHOOSE x \in 1..Len(ser) : ser[x][1] = name)
        value(name) == ser[field(name)][2]
        scalars(v) == [x \in 1..Len(v) |-> from_canonical_bytes(v[x])]
        points(v)  == [x \in 1..Len(v) |-> decompress(v[x])]
    IN  CASE scheme = "SAG" ->
               [challenge |-> from_canonical_bytes(value("challenge")),
                responses |-> scalars(value("responses")),
                ring |-> points(value("ring"))]
          [] scheme = "BLSAG" ->
               [challenge |-> from_canonical_bytes(value("challenge")),
                responses |-> scalars(value("responses")),
                ring |-> points(value("ring")),
                key_image |-> decompress(value("key_image"))]
          [] scheme = "CLSAG" ->
               [challenge |-> from_canonical_bytes(value("challenge")),
                responses |-> scalars(value("responses")),
                ring |-> [x \in 1..Len(value("ring")) |->
                             points(value("ring")[x])],
                key_images |-> points(value("key_images"))]

\* ----------------------------------------------------------- the machine

VARIABLES
    call,       \* the arguments of sign: scheme, Hash, k, ring, secret_index, message, seed
    pc,         \* "sign", "loop", "exit", "signed", "done", "abort"
    locals,     \* the local variables of sign
    signature,  \* the signature sign returned; once verify is called, its argument
    vmessage,   \* the message handed to verify
    tamper,     \* what verify's arguments differ in from what was signed
    result,     \* what verify returned: "true", "false", "abort"; "none" before
    pair,       \* two sign calls of one scheme and the signatures handed to link
    linked,     \* what link returned: "true", "false", "abort"; "none" before
    trace       \* the indices sign has assigned cs[..] at and read rs[..] at, in order

vars ==
    <<call, pc, locals, signature, vmessage, tamper, result, pair, linked, trace>>

NoTrace == [cs_writes |-> <<>>, rs_reads |-> <<>>]

NoTamper == [kind |-> "none", at |-> <<0, 0>>]

\* a key per column: k, k + 1, ...
KeyVectors ==
    {[y \in 1..m |-> ConstS(k + y - 1)] : k \in 0..MaxKey, m \in 1..MaxCols}

\* the rows of width nc the caller's decoy matrix is made of
Rows(nc) == {[y \in 1..nc |-> P] : P \in DecoyPoints}

Matrices == UNION {[1..m -> Rows(nc)] : m \in 0..MaxDecoys, nc \in 1..MaxCols}

\* SAG::sign::<Hash, CSPRNG>(k, ring, secret_index, message), BLSAG alike;
\* at most one secret index past the end of the decoy list is tried
SingleCall(c) ==
    \E sch \in {"SAG", "BLSAG"}, k \in Keys, r \in Rings, m \in Messages,
       sd \in 0..MaxSeed :
        \E s \in 0..(Len(r) + 1) :
            c = [scheme |-> sch, Hash |-> "Sha512", k |-> k, ring |-> r,
                 secret_index |-> s, message |-> m, seed |-> sd]

\* CLSAG::sign::<Hash, CSPRNG>(ks, ring, secret_index, message)
CLSAGCall(c) ==
    \E ks \in KeyVectors, r \in Matrices, m \in Messages, sd \in 0..MaxSeed :
        \E s \in 0..(Len(r) + 1) :
            c = [scheme |-> "CLSAG", Hash |-> "Sha512", k |-> ks, ring |-> r,
                 secret_index |-> s, message |-> m, seed |-> sd]

\* MLSAG::sign::<Hash, CSPRNG>(ks, ring, message): no secret_index parameter
MLSAGCall(c) ==
    \E ks \in KeyVectors, r \in Matrices, m \in Messages, sd \in 0..MaxSeed :
        c = [scheme |-> "MLSAG", Hash |-> "Sha512", k |-> ks, ring |-> r,
             secret_index |-> 0, message |-> m, seed |-> sd]

Init ==
    /\ \/ SingleCall(call)
       \/ CLSAGCall(call)
       \/ MLSAGCall(call)
    /\ pc = "sign"
    /\ locals = <<>>
    /\ signature = <<>>
    /\ vmessage = call.message
    /\ tamper = NoTamper
    /\ result = "none"
    /\ pair = <<>>
    /\ linked = "none"
    /\ trace = NoTrace

\* sign panics before it returns (Vec::insert past the end, indexing)
SignPanics(c) ==
    CASE c.scheme \in {"SAG", "BLSAG"} -> c.secret_index > Len(c.ring)
      [] c.scheme = "CLSAG" -> CLSAG_sign_panics(c.k, c.ring, c.secret_index)
      [] c.scheme = "MLSAG" -> MLSAG_sign_panics(c.k, c.ring)

enter(c) ==
    CASE c.scheme = "SAG" ->
           SAG_sign_enter(c.Hash, c.k, c.ring, c.secret_index, c.message, c.seed)
      [] c.scheme = "BLSAG" ->
           BLSAG_sign_enter(c.Hash, c.k, c.ring, c.secret_index, c.message, c.seed)
      [] c.scheme = "CLSAG" ->
           CLSAG_sign_enter(c.Hash, c.k, c.ring, c.secret_index, c.message, c.seed)
      [] c.scheme = "MLSAG" ->
           MLSAG_sign_enter(c.Hash, c.k, c.ring, c.message, c.seed)

body(c, l) ==
    CASE c.scheme = "SAG" -> SAG_sign_body(l)
      [] c.scheme = "BLSAG" -> BLSAG_sign_body(c.Hash, l)
      [] c.scheme = "CLSAG" -> CLSAG_sign_body(c.Hash, l)
      [] c.scheme = "MLSAG" -> MLSAG_sign_body(c.Hash, l)

exit(c, l) ==
    CASE c.scheme = "SAG" -> SAG_sign_exit(l, c.k, l.secret_index)
      [] c.scheme = "BLSAG" -> BLSAG_sign_exit(l, c.k, l.secret_index)
      [] c.scheme = "CLSAG" -> CLSAG_sign_exit(l, l.secret_index)
      [] c.scheme = "MLSAG" -> MLSAG_sign_exit(l, c.k)

verify(scheme, Hash, sig, message) ==
    CASE scheme = "SAG" -> SAG_verify(Hash, sig, message)
      [] scheme = "BLSAG" -> BLSAG_verify(Hash, sig, message)
      [] scheme = "CLSAG" -> CLSAG_verify(Hash, sig, message)
      [] scheme = "MLSAG" -> MLSAG_verify(Hash, sig, message)

\* the loop of sign, run from the locals l to its break
RECURSIVE loop(_, _)
loop(c, l) ==
    LET l2 == body(c, l)
    IN  IF LoopBreaks(l2.secret_index, l2.i, l2.n) THEN l2
        ELSE loop(c, [l2 EXCEPT !.i = (l2.i + 1) % l2.n])

\* a whole call of sign that does not panic: the signature it returns
sign(c) == exit(c, loop(c, enter(c)))

generate_key_image(scheme, Hash, k) ==
    CASE scheme = "BLSAG" -> BLSAG_generate_key_image(Hash, k)
      [] scheme = "CLSAG" -> CLSAG_generate_key_image(Hash, k)
      [] scheme = "MLSAG" -> MLSAG_generate_key_image(Hash, k)

\* link: "true", "false", or "abort" when the call panics
link(scheme, signature_1, signature_2) ==
    CASE scheme = "BLSAG" ->
           IF BLSAG_link(signature_1, signature_2) THEN "true" ELSE "false"
      [] scheme = "CLSAG" -> CLSAG_link(signature_1, signature_2)
      [] scheme = "MLSAG" ->
           IF MLSAG_link(signature_1, signature_2) THEN "true" ELSE "false"

\* sign is called and runs up to its loop, or panics
SignEnter ==
    /\ pc = "sign"
    /\ IF SignPanics(call)
       THEN pc' = "abort" /\ UNCHANGED <<locals, trace>>
       ELSE /\ pc' = "loop"
            /\ locals' = enter(call)
            /\ trace' = [cs_writes |-> <<enter(call).i>>, rs_reads |-> <<>>]
    /\ UNCHANGED <<call, signature, vmessage, tamper, result, pair, linked>>

\* one iteration of the loop: the step, then break or advance
SignLoop ==
    /\ pc = "loop"
    /\ LET l == body(call, locals)
       IN  IF LoopBreaks(l.secret_index, l.i, l.n)
           THEN pc' = "exit" /\ locals' = l
           ELSE pc' = "loop" /\ locals' = [l EXCEPT !.i = (l.i + 1) % l.n]
    /\ trace' = [cs_writes |-> Append(trace.cs_writes, (locals.i + 1) % locals.n),
                 rs_reads |-> Append(trace.rs_reads, locals.i % locals.n)]
    /\ UNCHANGED <<call, signature, vmessage, tamper, result, pair, linked>>

\* the gap closure; sign returns
SignExit ==
    /\ pc = "exit"
    /\ signature' = exit(call, locals)
    /\ pc' = "signed"
    /\ UNCHANGED <<call, locals, vmessage, tamper, result, pair, linked, trace>>

\* verify is called with the signature sig and the message msg
CallVerify(sig, msg, tam) ==
    /\ signature' = sig
    /\ vmessage' = msg
    /\ tamper' = tam
    /\ result' = verify(call.scheme, call.Hash, sig, msg)
    /\ pc' = "done"
    /\ UNCHANGED <<call, locals, pair, linked, trace>>

\* reconstructed_c of verify(signature, the signed message) after its step
\* j: the loop of verify run over the first j + 1 ring entries
ChainAfter(j) ==
    LET sig  == signature
        Hash == call.Hash
        cut  == [sig EXCEPT !.ring = SubSeq(@, 1, j + 1)]
    IN  CASE call.scheme = "SAG" ->
               SAG_verify_loop(
                   cut,
                   update(updateAll(HashNew(Hash),
                                    [x \in 1..Len(sig.ring) |->
                                        compress(sig.ring[x])]),
                          BytesChunk(call.message)),
                   0, sig.challenge).c
          [] call.scheme = "BLSAG" ->
               BLSAG_verify_loop(Hash, cut, call.message, 0, sig.challenge).c
          [] call.scheme = "CLSAG" ->
               LET nr == Len(sig.ring)
                   nc == Len(sig.ring[1])
                   prefixed == PrefixedHashesWithKeyImages(Hash, sig.ring, nr, nc,
                                                           sig.key_images)
               IN  CLSAG_verify_loop(
                       Hash, cut,
                       CLSAG_chain_hash(Hash, sig.ring, nr, nc, call.message),
                       [x \in 1..nr |-> AggregatePoint(prefixed, nc, sig.ring[x], 0)],
                       AggregatePoint(prefixed, nc, sig.key_images, 0),
                       0, sig.challenge).c
          [] call.scheme = "MLSAG" ->
               MLSAG_verify_loop(Hash, cut, call.message, 0, sig.challenge).c

\* the record with ring and responses moved one place down, the first entry
\* last
rotate(sig) ==
    LET n == Len(sig.ring)
    IN  [sig EXCEPT !.ring = [x \in 1..n |-> sig.ring[(x % n) + 1]],
                    !.responses = [x \in 1..n |-> sig.responses[(x % n) + 1]]]

MatrixRing == call.scheme \in {"CLSAG", "MLSAG"}

MatrixResponses == call.scheme = "MLSAG"

\* the positions <<row, column>> of a vector (column 1 only) or of a matrix
Cells(v, matrix) ==
    IF matrix
    THEN {pos \in (1..Len(v)) \X (1..(MaxCols + 1)) : pos[2] <= Len(v[pos[1]])}
    ELSE {<<x, 1>> : x \in 1..Len(v)}

Cell(v, matrix, pos) == IF matrix THEN v[pos[1]][pos[2]] ELSE v[pos[1]]

SetCell(v, matrix, pos, x) ==
    IF matrix THEN [v EXCEPT ![pos[1]][pos[2]] = x] ELSE [v EXCEPT ![pos[1]] = x]

\* verify is called with the signature as returned and the signed message
VerifySigned ==
    /\ pc = "signed"
    /\ CallVerify(signature, call.message, NoTamper)

\* verify is called with a different message
VerifyOtherMessage ==
    /\ pc = "signed"
    /\ \E m \in Messages \ {call.message} :
           CallVerify(signature, m, [kind |-> "message", at |-> <<0, 0>>])

\* verify is called with the challenge replaced by a different scalar
VerifyAlteredChallenge ==
    /\ pc = "signed"
    /\ CallVerify([signature EXCEPT !.challenge = AddS(@, ConstS(1))],
                  call.message, [kind |-> "challenge", at |-> <<0, 0>>])

\* verify is called with one response replaced by a different scalar
VerifyAlteredResponse ==
    /\ pc = "signed"
    /\ \E pos \in Cells(signature.responses, MatrixResponses) :
           LET old == Cell(signature.responses, MatrixResponses, pos)
           IN  CallVerify([signature EXCEPT !.responses =
                              SetCell(@, MatrixResponses, pos, AddS(old, ConstS(1)))],
                          call.message, [kind |-> "response", at |-> pos])

\* verify is called with one ring entry replaced by a different point
VerifyAlteredRing ==
    /\ pc = "signed"
    /\ \E pos \in Cells(signature.ring, MatrixRing) :
           \E P \in DecoyPoints \ {Cell(signature.ring, MatrixRing, pos)} :
               CallVerify([signature EXCEPT !.ring = SetCell(@, MatrixRing, pos, P)],
                          call.message, [kind |-> "ring", at |-> pos])

\* verify is called with the last response (row) removed
VerifyFewerResponses ==
    /\ pc = "signed"
    /\ CallVerify([signature EXCEPT !.responses =
                      SubSeq(@, 1, Len(@) - 1)],
                  call.message, [kind |-> "fewer", at |-> <<0, 0>>])

\* verify is called with one more response (row) than ring entries
VerifyMoreResponses ==
    /\ pc = "signed"
    /\ CallVerify([signature EXCEPT !.responses = Append(@, @[1])],
                  call.message, [kind |-> "more", at |-> <<0, 0>>])

\* verify is called with the last entry of one ring row removed
VerifyShorterRow ==
    /\ pc = "signed"
    /\ MatrixRing
    /\ \E x \in 1..Len(signature.ring) :
           CallVerify([signature EXCEPT !.ring[x] = SubSeq(@, 1, Len(@) - 1)],
                      call.message, [kind |-> "shorter", at |-> <<x, 0>>])

\* verify is called with one more entry in one ring row
VerifyLongerRow ==
    /\ pc = "signed"
    /\ MatrixRing
    /\ \E x \in 1..Len(signature.ring) :
           CallVerify([signature EXCEPT !.ring[x] = Append(@, RandomPoint)],
                      call.message, [kind |-> "longer", at |-> <<x, 0>>])

\* verify is instantiated with another hash function than sign was
VerifyOtherHash ==
    /\ pc = "signed"
    /\ \E Hash \in HashAlgs \ {call.Hash} :
           /\ result' = verify(call.scheme, Hash, signature, call.message)
           /\ tamper' = [kind |-> "hash", at |-> <<0, 0>>]
    /\ pc' = "done"
    /\ UNCHANGED <<call, locals, signature, vmessage, pair, linked, trace>>

\* the signature is serialized and verify is called on what deserializing
\* gives; a struct without Serialize has no serialized form and no such call
VerifyDeserialized ==
    /\ pc = "signed"
    /\ IF call.scheme \in Serde
       THEN CallVerify(deserialize(call.scheme, serialize(call.scheme, signature)),
                       call.message, [kind |-> "serde", at |-> <<0, 0>>])
       ELSE /\ tamper' = [kind |-> "serde", at |-> <<0, 0>>]
            /\ pc' = "done"
            /\ UNCHANGED <<call, locals, signature, vmessage, result, pair, linked, trace>>

\* verify is called with ring and responses rotated by one place and the
\* challenge the verifier reconstructs after its step 0
VerifyRotated ==
    /\ pc = "signed"
    /\ Len(signature.ring) >= 2
    /\ verify(call.scheme, call.Hash, signature, call.message) # "abort"
    /\ CallVerify([rotate(signature) EXCEPT !.challenge = ChainAfter(0)],
                  call.message, [kind |-> "rotated", at |-> <<0, 0>>])

\* verify is called on a record with an empty ring: the challenge of the
\* signature, its responses or none, any message
VerifyEmptyRing ==
    /\ pc = "signed"
    /\ \E rs \in {signature.responses, <<>>}, m \in Messages :
           CallVerify([signature EXCEPT !.ring = <<>>, !.responses = rs],
                      m, [kind |-> "empty", at |-> <<0, 0>>])

Next ==
    \/ SignEnter
    \/ SignLoop
    \/ SignExit
    \/ VerifySigned
    \/ VerifyOtherMessage
    \/ VerifyAlteredChallenge
    \/ VerifyAlteredResponse
    \/ VerifyAlteredRing
    \/ VerifyFewerResponses
    \/ VerifyMoreResponses
    \/ VerifyShorterRow
    \/ VerifyLongerRow
    \/ VerifyOtherHash
    \/ VerifyDeserialized
    \/ VerifyRotated
    \/ VerifyEmptyRing

Spec == Init /\ [][Next]_vars

\* ------------------------------------------------ two signatures and link

\* the key images of the private keys 0 and 1
ImagePoints == {IDENTITY, BLSAG_generate_key_image("Sha512", ConstS(1))}

\* the key-image lists a record handed to link may hold
KeyImageLists == UNION {[1..m -> ImagePoints] : m \in 0..MaxCols}

\* a key per column, different keys or one key in every column
LinkKeyVectors ==
    KeyVectors \cup {[y \in 1..MaxCols |-> ConstS(k)] : k \in 0..MaxKey}

\* decoy lists of every length from 1 on, and the matrices of width nc of them
LinkRings ==
    {[x \in 1..m |-> IF x = m THEN RandomPoint ELSE IDENTITY] : m \in 1..MaxDecoys}

LinkMatrices(nc) == {[x \in 1..Len(r) |-> [y \in 1..nc |-> r[x]]] : r \in LinkRings}

\* the calls of sign of a linkable scheme, with the generator seeded from seeds
LinkCalls(scheme, seeds) ==
    IF scheme = "BLSAG"
    THEN UNION {{[scheme |-> scheme, Hash |-> "Sha512", k |-> k, ring |-> r,
                  secret_index |-> s, message |-> m, seed |-> sd] :
                    k \in Keys, s \in {0, Len(r)}, m \in Messages, sd \in seeds} :
                r \in LinkRings}
    ELSE UNION {UNION {{[scheme |-> scheme, Hash |-> "Sha512", k |-> ks, ring |-> r,
                         secret_index |-> s, message |-> m, seed |-> sd] :
                           s \in IF scheme = "MLSAG" THEN {0} ELSE {0, Len(r)},
                           m \in Messages, sd \in seeds} :
                       r \in LinkMatrices(Len(ks))} :
                ks \in LinkKeyVectors}

\* two calls of sign of one linkable scheme are about to be made
LinkInit ==
    /\ \E scheme \in {"BLSAG", "CLSAG", "MLSAG"} :
           \E c1 \in LinkCalls(scheme, IF scheme = "MLSAG" THEN 0..MaxSeed ELSE {0}) :
               \E c2 \in LinkCalls(scheme, {1}) :
                   pair = [scheme |-> scheme, calls |-> <<c1, c2>>,
                           signatures |-> <<>>, replaced |-> FALSE]
    /\ pc = "pair"
    /\ linked = "none"
    /\ call = <<>>
    /\ locals = <<>>
    /\ signature = <<>>
    /\ vmessage = <<>>
    /\ tamper = NoTamper
    /\ result = "none"
    /\ trace = NoTrace

\* both calls of sign run, each to its return or panic
SignPair ==
    /\ pc = "pair"
    /\ IF SignPanics(pair.calls[1]) \/ SignPanics(pair.calls[2])
       THEN pc' = "abort" /\ UNCHANGED pair
       ELSE /\ pc' = "paired"
            /\ pair' = [pair EXCEPT !.signatures =
                            <<sign(pair.calls[1]), sign(pair.calls[2])>>]
    /\ UNCHANGED <<call, locals, signature, vmessage, tamper, result, linked, trace>>

\* the second record gets other key images than sign gave it
ReplaceKeyImages ==
    /\ pc = "paired"
    /\ ~pair.replaced
    /\ IF pair.scheme = "BLSAG"
       THEN \E P \in ImagePoints :
                pair' = [pair EXCEPT !.signatures[2].key_image = P,
                                     !.replaced = TRUE]
       ELSE \E images \in KeyImageLists :
                pair' = [pair EXCEPT !.signatures[2].key_images = images,
                                     !.replaced = TRUE]
    /\ UNCHANGED <<call, pc, locals, signature, vmessage, tamper, result, linked, trace>>

\* link is called on the two records
Link ==
    /\ pc = "paired"
    /\ linked' = link(pair.scheme, pair.signatures[1], pair.signatures[2])
    /\ pc' = "linked"
    /\ UNCHANGED <<call, locals, signature, vmessage, tamper, result, pair, trace>>

LinkNext ==
    \/ SignPair
    \/ ReplaceKeyImages
    \/ Link

LinkSpec == LinkInit /\ [][LinkNext]_vars

\* ----------------------------------------------------------------- claims

\* verify was called on the signature sign returned, with the signed message
Honest == pc = "done" /\ tamper.kind = "none"

\* the call has at least one decoy and a secret index inside the ring
InRing == Len(call.ring) >= 1 /\ call.secret_index <= Len(call.ring)

\* CLSAG, MLSAG: as many private keys as the decoy rows are wide
KeysMatch == Len(call.ring) >= 1 /\ Len(call.k) = Len(call.ring[1])

\* C1: SAG.verify(SAG.sign(k, decoys, pi, m), m) = true for every k, every
\* decoy list of length >= 1, every pi in [0, n-1] and every m: sign returns
\* and verify accepts.
C1_SAGCorrect ==
    (call.scheme = "SAG" /\ InRing) =>
        /\ pc # "abort"
        /\ Honest => result = "true"

\* C1 at the edge pi = n-1 of the largest ring
C1_Witness ==
    /\ call.scheme = "SAG" /\ Honest /\ result = "true"
    /\ Len(call.ring) = MaxDecoys /\ call.secret_index = MaxDecoys

\* C2: BLSAG.verify(BLSAG.sign(k, decoys, pi, m), m) = true for every k,
\* every decoy list of length >= 1, every pi in [0, n-1] and every m.
C2_BLSAGCorrect ==
    (call.scheme = "BLSAG" /\ InRing) =>
        /\ pc # "abort"
        /\ Honest => result = "true"

\* C2 at the edge pi = 0 of the largest ring
C2_Witness ==
    /\ call.scheme = "BLSAG" /\ Honest /\ result = "true"
    /\ Len(call.ring) = MaxDecoys /\ call.secret_index = 0

\* C3: CLSAG.verify(CLSAG.sign(ks, decoys, pi, m), m) = true for every ks of
\* length n_c, every rectangular decoy matrix of n_r-1 >= 1 rows of width n_c,
\* every pi in [0, n_r-1] and every m.
C3_CLSAGCorrect ==
    (call.scheme = "CLSAG" /\ InRing /\ KeysMatch) =>
        /\ pc # "abort"
        /\ Honest => result = "true"

\* C3 at pi = 0 of the largest ring, with the widest rows
C3_Witness ==
    /\ call.scheme = "CLSAG" /\ Honest /\ result = "true"
    /\ Len(call.ring) = MaxDecoys /\ call.secret_index = 0
    /\ Len(call.k) = MaxCols /\ KeysMatch

\* C4: MLSAG.verify accepts the signature MLSAG.sign returns, for every ks of
\* length n_c, every rectangular decoy matrix of n_r-1 >= 1 rows of width n_c,
\* whatever position the signer's row ends up at, and every m.
C4_MLSAGCorrect ==
    (call.scheme = "MLSAG" /\ KeysMatch) =>
        /\ pc # "abort"
        /\ Honest => result = "true"

\* C4 with the signer's row last in the largest ring, the widest rows
C4_Witness ==
    /\ call.scheme = "MLSAG" /\ Honest /\ result = "true"
    /\ Len(call.ring) = MaxDecoys /\ locals.secret_index = MaxDecoys
    /\ Len(call.k) = MaxCols /\ KeysMatch

\* the call is one sign's contract covers: CLSAG and MLSAG with one private
\* key per column
WellFormed == call.scheme \in {"CLSAG", "MLSAG"} => KeysMatch

\* C5: message binding. For every scheme, keys, decoys, secret index and
\* m' # m, S.verify(S.sign(k, R, pi, m), m') = false: verify never accepts
\* the other message, and on every call sign's contract covers it returns
\* false.
C5_MessageBinding ==
    (pc = "done" /\ tamper.kind = "message") =>
        /\ result # "true"
        /\ WellFormed => result = "false"

\* C5 on a signature that verifies on the signed message (CLSAG, n_r >= 2)
C5_Witness ==
    /\ pc = "done" /\ tamper.kind = "message" /\ result = "false"
    /\ call.scheme = "CLSAG" /\ KeysMatch /\ vmessage # call.message
    /\ CLSAG_verify(call.Hash, signature, call.message) = "true"

\* sign's contract covers the call and the caller passed at least one decoy
Covered == WellFormed /\ Len(call.ring) >= 1

\* C6: challenge binding. For every scheme and every signature sign produced,
\* over any ring of group points, altering the challenge or any single
\* response makes verify return false.
C6_ChallengeBinding ==
    (pc = "done" /\ tamper.kind \in {"challenge", "response"} /\ Covered) =>
        result = "false"

\* C7: ring binding. For every scheme and every signature sign produced,
\* replacing any single ring entry by a different point makes verify return
\* false.
C7_RingBinding ==
    (pc = "done" /\ tamper.kind = "ring" /\ Covered) => result = "false"

\* C8: with fewer or more responses than ring entries, verify returns false
\* and does not abort, in every scheme.
C8_ResponseCount ==
    (pc = "done" /\ tamper.kind \in {"fewer", "more"} /\ Covered) =>
        result = "false"

\* C9: CLSAG and MLSAG verify return false, without aborting, when the ring
\* rows have unequal lengths.
C9_RaggedRows ==
    (pc = "done" /\ tamper.kind \in {"shorter", "longer"} /\ Covered) =>
        result = "false"

\* C10: sign never silently produces an invalid signature: on every input on
\* which it returns, an empty decoy list included, verify accepts what it
\* returned.
C10_SignNeverInvalid == Honest => result = "true"

\* C11: CLSAG.sign and MLSAG.sign abort, and return no signature, whenever the
\* number of private keys differs from the width n_c of the decoy rows, with
\* fewer keys as with more.
C11_KeyCountChecked ==
    (/\ call.scheme \in {"CLSAG", "MLSAG"}
     /\ Len(call.ring) >= 1
     /\ Len(call.k) # Len(call.ring[1])) => pc \in {"sign", "abort"}

\* link was called on the two records
Linked == pc = "linked"

\* both records are as sign returned them
AsSigned == pc \in {"paired", "linked"} /\ ~pair.replaced

\* the key image(s) a record of the scheme holds
Images(scheme, sig) == IF scheme = "BLSAG" THEN sig.key_image ELSE sig.key_images

\* the two MLSAG or CLSAG records hold a common key image
CommonImage ==
    \E i \in 1..Len(pair.signatures[1].key_images) :
        \E j \in 1..Len(pair.signatures[2].key_images) :
            pair.signatures[1].key_images[i] = pair.signatures[2].key_images[j]

\* C12: MLSAG.link(sig_1, sig_2) is true if and only if some key image of
\* sig_1 equals some key image of sig_2, also when a record holds the same
\* point twice.
C12_MLSAGLinkIff ==
    (Linked /\ pair.scheme = "MLSAG") => (linked = "true" <=> CommonImage)

\* C13: CLSAG.link(sig_1, sig_2) is true if and only if the two key_images[0]
\* are equal, whatever the key images of the columns j >= 1 are.
C13_CLSAGLinkFirstImage ==
    (/\ Linked /\ pair.scheme = "CLSAG"
     /\ Len(pair.signatures[1].key_images) >= 1
     /\ Len(pair.signatures[2].key_images) >= 1) =>
        /\ linked \in {"true", "false"}
        /\ linked = "true" <=>
               pair.signatures[1].key_images[1] = pair.signatures[2].key_images[1]

\* C13 where the records link and differ in the column 1
C13_Witness ==
    /\ Linked /\ pair.scheme = "CLSAG" /\ linked = "true"
    /\ Len(pair.signatures[1].key_images) >= 2
    /\ Len(pair.signatures[2].key_images) >= 2
    /\ pair.signatures[1].key_images[2] # pair.signatures[2].key_images[2]

\* C14: BLSAG.link(sig_1, sig_2) is true if and only if the two key_image
\* fields are the same point, whatever challenge, responses and ring are.
C14_BLSAGLinkKeyImage ==
    (Linked /\ pair.scheme = "BLSAG") =>
        (linked = "true" <=>
            pair.signatures[1].key_image = pair.signatures[2].key_image)

\* C14 where the records link and differ in challenge, responses and ring
C14_Witness ==
    /\ Linked /\ pair.scheme = "BLSAG" /\ linked = "true"
    /\ pair.signatures[1].ring # pair.signatures[2].ring
    /\ pair.signatures[1].challenge # pair.signatures[2].challenge
    /\ pair.signatures[1].responses # pair.signatures[2].responses

\* C15: link correctness. In BLSAG, MLSAG and CLSAG two signatures sign
\* returned for the same private key(s) and hash link, whatever the decoys,
\* the messages and the secret indices.
C15_LinkCorrect ==
    (Linked /\ AsSigned /\ pair.calls[1].k = pair.calls[2].k) => linked = "true"

\* C15 on two signatures over different rings, messages and secret indices
C15_Witness ==
    /\ Linked /\ AsSigned /\ linked = "true"
    /\ pair.scheme = "BLSAG"
    /\ pair.calls[1].k = pair.calls[2].k
    /\ pair.calls[1].ring # pair.calls[2].ring
    /\ pair.calls[1].message # pair.calls[2].message
    /\ pair.calls[1].secret_index # pair.calls[2].secret_index

\* C16: key-image determinism. The key image(s) in a signature sign returned
\* for the private key(s) k are generate_key_image(k), so equal for equal
\* keys, whatever decoys, secret index, message and nonces.
C16_KeyImageDeterminism ==
    AsSigned =>
        /\ \A w \in 1..2 :
               Images(pair.scheme, pair.signatures[w]) =
                   generate_key_image(pair.scheme, pair.calls[w].Hash,
                                      pair.calls[w].k)
        /\ pair.calls[1].k = pair.calls[2].k =>
               Images(pair.scheme, pair.signatures[1]) =
                   Images(pair.scheme, pair.signatures[2])

\* C16 on two CLSAG signatures of the same keys that share nothing else
C16_Witness ==
    /\ AsSigned /\ pair.scheme = "CLSAG"
    /\ pair.calls[1].k = pair.calls[2].k /\ Len(pair.calls[1].k) = MaxCols
    /\ pair.calls[1].ring # pair.calls[2].ring
    /\ pair.calls[1].message # pair.calls[2].message
    /\ pair.calls[1].secret_index # pair.calls[2].secret_index
    /\ pair.calls[1].seed # pair.calls[2].seed
    /\ pair.signatures[1].key_images = pair.signatures[2].key_images

\* C17: link is total. On every pair of records of a linkable scheme, records
\* with an empty key-image list included, link returns a boolean.
C17_LinkTotal == Linked => linked \in {"true", "false"}

\* sign has returned and verify has not been called yet
Signed == pc = "signed"

\* the signer's public key: k * G, or the row of the k_j * G
OwnKey ==
    IF call.scheme \in {"SAG", "BLSAG"}
    THEN MulP(call.k, RISTRETTO_BASEPOINT_POINT)
    ELSE [y \in 1..Len(call.k) |-> MulP(call.k[y], RISTRETTO_BASEPOINT_POINT)]

\* C18: MLSAG.sign takes the secret index from the caller: the signer's row
\* is at the position secret_index of the returned ring, whatever the random
\* number generator returns.
C18_MLSAGCallerIndex ==
    (Signed /\ call.scheme = "MLSAG") =>
        At(signature.ring, call.secret_index) = OwnKey

\* C19: the ring of a signature SAG, BLSAG or CLSAG sign returned is the
\* caller's decoy list with the signer's key inserted at secret_index: it has
\* len(decoys) + 1 entries, ring[secret_index] is the signer's key and the
\* other entries are the decoys in their order.
C19_RingIsDecoysWithKey ==
    (Signed /\ call.scheme \in {"SAG", "BLSAG", "CLSAG"}) =>
        /\ Len(signature.ring) = Len(call.ring) + 1
        /\ At(signature.ring, call.secret_index) = OwnKey
        /\ remove(signature.ring, call.secret_index) = call.ring

\* C19 with the signer's key between two decoys that differ from it
C19_Witness ==
    /\ Signed /\ call.scheme = "CLSAG"
    /\ Len(call.ring) = MaxDecoys /\ call.secret_index = 1
    /\ \A x \in 1..Len(call.ring) : call.ring[x] # OwnKey
    /\ At(signature.ring, 1) = OwnKey

\* C20: the shape of a signature sign returned on well-formed input. SAG and
\* BLSAG: |responses| = |ring| = n. CLSAG: one response per ring row and n_c
\* key images. MLSAG: an n_r x n_c response matrix like the ring and n_c key
\* images.
C20_Shape ==
    (Signed /\ Covered) =>
        LET n == Len(call.ring) + 1
        IN  /\ Len(signature.ring) = n
            /\ Len(signature.responses) = n
            /\ call.scheme \in {"CLSAG", "MLSAG"} =>
                   /\ Len(signature.key_images) = Len(call.ring[1])
                   /\ \A x \in 1..n : Len(signature.ring[x]) = Len(call.ring[1])
            /\ call.scheme = "MLSAG" =>
                   \A x \in 1..n :
                       Len(signature.responses[x]) = Len(call.ring[1])

\* C20 on an MLSAG signature of the largest ring with the widest rows
C20_Witness ==
    /\ Signed /\ Covered /\ call.scheme = "MLSAG"
    /\ Len(call.ring) = MaxDecoys /\ Len(call.ring[1]) = MaxCols
    /\ Len(signature.key_images) = MaxCols
    /\ Len(signature.responses) = MaxDecoys + 1

\* C21: cross-hash rejection. In every scheme a signature sign produced with
\* one hash function is rejected by verify instantiated with a different hash
\* function on the same message: verify never accepts it, and on every call
\* sign's contract covers it returns false.
C21_CrossHash ==
    (pc = "done" /\ tamper.kind = "hash") =>
        /\ result # "true"
        /\ WellFormed => result = "false"

\* C21 on an MLSAG signature that verifies under the hash it was signed with
C21_Witness ==
    /\ pc = "done" /\ tamper.kind = "hash" /\ result = "false"
    /\ call.scheme = "MLSAG" /\ KeysMatch /\ vmessage = call.message
    /\ MLSAG_verify(call.Hash, signature, call.message) = "true"

\* C22: serialization round trip. For SAG, BLSAG, CLSAG and MLSAG the record
\* deserialized from the serialized form of a signature sign returned has
\* the same challenge, responses, ring and key image(s), and verify accepts
\* it on the signed message.
C22_SerdeRoundTrip ==
    (pc = "done" /\ tamper.kind = "serde" /\ Covered) =>
        /\ signature = exit(call, locals)
        /\ result = "true"

\* the loop of sign over a ring of n >= 2 entries has exited
LoopExited == pc \in {"exit", "signed"} /\ locals.n >= 2

\* alpha - c_pi * k for the value cs[pi] has at the exit of the loop: a
\* scalar, or in MLSAG the row of one scalar per column
GapClosure ==
    LET c_pi == At(locals.cs, locals.secret_index)
    IN  CASE call.scheme \in {"SAG", "BLSAG"} ->
               SubS(locals.a, MulS(c_pi, call.k))
          [] call.scheme = "CLSAG" ->
               SubS(locals.a, MulS(c_pi, locals.aggregate_private_key))
          [] call.scheme = "MLSAG" ->
               [y \in 1..locals.nc |->
                   SubS(locals.a[y], MulS(c_pi, call.k[y]))]

\* C23: in every scheme, for n >= 2 and every pi in [0, n), when the loop of
\* sign exits every cs[k], k in [0, n), has been assigned exactly once and
\* holds the hash of its hasher, cs[pi] is the last one assigned, the gap
\* closure r_pi = alpha - c_pi * k uses that value, and the challenge of the
\* signature is cs[0].
C23_LoopInvariant ==
    LoopExited =>
        LET n  == locals.n
            pi == locals.secret_index
            w  == trace.cs_writes
        IN  /\ \A k \in 0..(n - 1) :
                   /\ Cardinality({x \in 1..Len(w) : w[x] = k}) = 1
                   /\ At(locals.cs, k) = ScalarFromHash(At(locals.hashes, k))
            /\ Len(w) = n
            /\ w[Len(w)] = pi
            /\ pc = "signed" =>
                   /\ At(signature.responses, pi) = GapClosure
                   /\ signature.challenge = At(locals.cs, 0)

\* C23 with the signer in the middle of the largest ring: the assignments
\* wrap around the end of cs
C23_Witness ==
    /\ LoopExited /\ pc = "signed" /\ call.scheme = "CLSAG"
    /\ locals.n = MaxDecoys + 1 /\ locals.secret_index = 1
    /\ trace.cs_writes[1] = 2 /\ trace.cs_writes[Len(trace.cs_writes)] = 1
    /\ 0 \in {trace.cs_writes[x] : x \in 1..Len(trace.cs_writes)}
    /\ signature.challenge = At(locals.cs, 0)

\* the iterations of the loop made so far: one read of rs[i % n] each
Iterations == Len(trace.rs_reads)

\* inside the loop fewer than n - 1 iterations are behind, after it n - 1
IterationCount ==
    (pc \in {"loop", "exit", "signed"} /\ locals.n >= 2) =>
        IF pc = "loop" THEN Iterations < locals.n - 1
        ELSE Iterations = locals.n - 1

\* C24: the loop of sign terminates for every ring size n >= 2 and every
\* secret index pi in [0, n), after exactly n - 1 iterations: the count
\* depends on n only, not on pi. Every step taken inside the loop is one
\* more iteration and stays in sign, the count stays below n - 1 inside the
\* loop and is n - 1 once it is left.
C24_LoopTerminates ==
    /\ []IterationCount
    /\ [][pc = "loop" =>
             /\ Iterations' = Iterations + 1
             /\ pc' \in {"loop", "exit"}]_vars

\* C24 on the largest ring with the signer first: MaxDecoys iterations
C24_Witness ==
    /\ pc = "exit" /\ call.scheme = "BLSAG"
    /\ locals.n = MaxDecoys + 1 /\ locals.secret_index = 0
    /\ Iterations = MaxDecoys

\* the response of index i as the generator of the call gave it before the
\* loop: the draw after the nonce's, in MLSAG the row of draws after them
Drawn(i) ==
    IF call.scheme = "MLSAG"
    THEN [y \in 1..locals.nc |->
             random(call.seed, locals.nc + i * locals.nc + y)]
    ELSE random(call.seed, i + 1)

\* C25: the gap closure writes a single slot (n >= 2). The loop leaves rs as
\* it was drawn and never reads rs[secret_index]; in the signature sign
\* returns responses[i] is the value drawn before the loop for every
\* i # secret_index, and responses[secret_index] is the closure.
C25_SingleSlot ==
    (pc \in {"loop", "exit", "signed"} /\ locals.n >= 2) =>
        LET n  == locals.n
            pi == locals.secret_index
        IN  /\ \A i \in 0..(n - 1) : At(locals.rs, i) = Drawn(i)
            /\ \A x \in 1..Len(trace.rs_reads) : trace.rs_reads[x] # pi
            /\ pc = "signed" =>
                   /\ \A i \in (0..(n - 1)) \ {pi} :
                          At(signature.responses, i) = Drawn(i)
                   /\ At(signature.responses, pi) = GapClosure

\* C25 on a SAG signature of the largest ring, the closure in the middle
\* slot and different from what was drawn there
C25_Witness ==
    /\ pc = "signed" /\ call.scheme = "SAG"
    /\ locals.n = MaxDecoys + 1 /\ locals.secret_index = 1
    /\ At(signature.responses, 1) # Drawn(1)
    /\ At(signature.responses, 0) = Drawn(0)
    /\ At(signature.responses, 2) = Drawn(2)

\* the encodings of the nonce commitment, in the order sign hashes them:
\* alpha * G, and for the linkable schemes alpha * H_p(the signer's key)
NonceCommitment ==
    LET G  == RISTRETTO_BASEPOINT_POINT
        K  == At(locals.ring, locals.secret_index)
        Hp(P) == HashToPoint(call.Hash, P)
    IN  CASE call.scheme = "SAG" -> <<compress(MulP(locals.a, G))>>
          [] call.scheme = "BLSAG" ->
               <<compress(MulP(locals.a, G)), compress(MulP(locals.a, Hp(K)))>>
          [] call.scheme = "CLSAG" ->
               <<compress(MulP(locals.a, G)),
                 compress(MulP(locals.a, Hp(At(K, 0))))>>
          [] call.scheme = "MLSAG" ->
               [x \in 1..(2 * locals.nc) |->
                   LET y == (x + 1) \div 2
                   IN  IF x % 2 = 1 THEN compress(MulP(locals.a[y], G))
                       ELSE compress(MulP(locals.a[y], Hp(K[y])))]

\* the last m chunks fed to the hasher h
LastChunks(h, m) == SubSeq(h, Len(h) - m + 1, Len(h))

\* C26: the signer's and the verifier's chains coincide. For a signature
\* sign returned over n >= 2 ring entries, the challenge verify reconstructs
\* after its step j is the signer's cs[(j+1) mod n], for every j in [0, n);
\* the one after the step j = secret_index is the hash that ends with the
\* nonce commitment alpha * G (and alpha * H_p(..) in the linkable schemes).
C26_ChainsCoincide ==
    (Signed /\ Covered /\ locals.n >= 2) =>
        LET n  == locals.n
            pi == locals.secret_index
            h  == At(locals.hashes, (pi + 1) % n)
        IN  /\ \A j \in 0..(n - 1) : ChainAfter(j) = At(locals.cs, (j + 1) % n)
            /\ ChainAfter(pi) = ScalarFromHash(h)
            /\ LastChunks(h, Len(NonceCommitment)) = NonceCommitment

\* C26 on a BLSAG signature with the signer last in the largest ring: the
\* step at secret_index closes the chain on the challenge
C26_Witness ==
    /\ Signed /\ Covered /\ call.scheme = "BLSAG"
    /\ locals.n = MaxDecoys + 1 /\ locals.secret_index = MaxDecoys
    /\ ChainAfter(MaxDecoys) = signature.challenge
    /\ ChainAfter(0) = At(locals.cs, 1)

\* the entries (rows) of the ring handed to verify are pairwise different
DistinctEntries ==
    \A x, y \in 1..Len(signature.ring) :
        x # y => signature.ring[x] # signature.ring[y]

\* C27: BLSAG and MLSAG signatures bind the order of the ring. For a
\* signature sign returned over n >= 2 distinct ring entries, verify on the
\* signed message rejects the record rotated by one place: ring and
\* responses moved down, the challenge c_1 of the verifier's chain, the key
\* image(s) unchanged.
C27_RingOrderBound ==
    (/\ pc = "done" /\ tamper.kind = "rotated"
     /\ call.scheme \in {"BLSAG", "MLSAG"}
     /\ Covered /\ DistinctEntries) => result = "false"

\* H_p of the encoding of the primary (column 0) key of the signer's row
PrimaryHashed == HashToPoint(call.Hash, At(At(locals.ring, locals.secret_index), 0))

\* C28: the CLSAG aggregate key image. generate_key_image(ks)[j] is
\* k_j * H_p(compress(k_0 * G)) for every column j, the hash-to-point of the
\* primary public key only; so the aggregate key image Sum_j mu_j * I_j is
\* (Sum_j mu_j * k_j) * H_p(compress(pk_{pi,0})), and with the closed
\* response the second step term at the signer's row is alpha * H_p(..).
C28_AggregateKeyImage ==
    (call.scheme = "CLSAG" /\ pc \in {"loop", "exit", "signed"}) =>
        LET pi == locals.secret_index
            images == CLSAG_generate_key_image(call.Hash, call.k)
        IN  /\ locals.key_images = images
            /\ \A j \in 1..Len(call.k) :
                   images[j] =
                       MulP(call.k[j],
                            HashToPoint(call.Hash,
                                        MulP(call.k[1], RISTRETTO_BASEPOINT_POINT)))
            /\ locals.aggregate_key_image =
                   MulP(locals.aggregate_private_key, PrimaryHashed)
            /\ pc = "signed" =>
                   multiscalar_mul(At(signature.responses, pi), At(locals.cs, pi),
                                   PrimaryHashed, locals.aggregate_key_image)
                       = MulP(locals.a, PrimaryHashed)

\* C28 on a signature over the widest rows with different private keys,
\* none of them zero, and the signer not in row 0
C28_Witness ==
    /\ call.scheme = "CLSAG" /\ pc = "signed" /\ KeysMatch
    /\ Len(call.k) = MaxCols /\ call.k[1] # ZERO /\ call.k[MaxCols] # call.k[1]
    /\ locals.secret_index >= 1
    /\ locals.aggregate_key_image # IDENTITY
    /\ locals.aggregate_key_image =
           MulP(locals.aggregate_private_key, PrimaryHashed)

\* C29: SAG.verify and BLSAG.verify return false on every record whose ring
\* is empty, whatever its challenge, its responses and the message.
C29_EmptyRingRejected ==
    (/\ pc = "done" /\ tamper.kind = "empty"
     /\ call.scheme \in {"SAG", "BLSAG"}) => result = "false"

\* C30: SAG, BLSAG and CLSAG sign fail loudly on an out-of-range secret
\* index. A call with secret_index > len(decoys) aborts and no signature is
\* ever returned; with secret_index in [0, len(decoys)] and otherwise
\* well-formed input (at least one decoy, one key per column) sign does not
\* abort.
C30_IndexOutOfRange ==
    call.scheme \in {"SAG", "BLSAG", "CLSAG"} =>
        /\ call.secret_index > Len(call.ring) =>
               /\ pc \in {"sign", "abort"}
               /\ signature = <<>>
        /\ (call.secret_index <= Len(call.ring) /\ Covered) => pc # "abort"

\* C30 on a CLSAG call that is well formed but for its index, one past the
\* end of the longest decoy list
C30_Witness ==
    /\ pc = "abort" /\ call.scheme = "CLSAG" /\ KeysMatch
    /\ Len(call.ring) = MaxDecoys /\ call.secret_index = MaxDecoys + 1

=============================================================================
